---- MODULE Spec2Model ----
(***************************************************************************)
(* A model of the decision core of src/src/gateway_manager.py:             *)
(* CircuitBreaker, RateLimiter, LoadBalancer and GatewayMetrics, each with  *)
(* the lock its code takes, driven by request threads and by the wall       *)
(* clock, and the APIGatewayManager that owns the routes and services.      *)
(* A dict is a function on its keys, the empty dict the empty tuple.        *)
(*                                                                         *)
(* time.time() is the variable now: whole seconds, never decreasing.        *)
(* Python's None is the empty tuple, a value v is the one-tuple <<v>>.      *)
(***************************************************************************)
EXTENDS Integers, Sequences, FiniteSets, TLC

\* ------------------------------------------------------------------ bounds
\* The clock runs from StartTime to MaxTime.
MaxTime == 5
\* Request threads calling into one component.
NumThreads == 2
\* Cap of failure_count and of success_count (the code's counters are unbounded).
MaxCount == 3
\* CircuitBreaker(timeout_seconds=...) is drawn from 1..MaxTimeout.
MaxTimeout == 2

\* Calls of is_allowed in one run.
MaxCalls == 4
\* Client identities.
NumClients == 2
\* RateLimitConfig: requests_per_window in 1..MaxQuota (a route's
\* rate_limit_requests is positive), window_size_seconds in 1..MaxWindow,
\* cleanup_interval_seconds in 1..MaxCleanup.
MaxQuota == 2
MaxWindow == 2
MaxCleanup == 1

\* Instances registered for the service, in insertion order.
NumInstances == 3
\* ServiceInstance.weight is drawn from 0..MaxWeight by the weighted strategy,
\* max_connections from 1..MaxConnections by least_connections.
MaxWeight == 2
MaxConnections == 2
\* Cap of current_index (the code's counter is unbounded).
MaxIndex == 4
\* random.uniform draws are the multiples of 1/DrawSteps.
DrawSteps == 2

\* Calls of record_request in one run.
MaxRecords == 3
\* record_request(latency_ms=...) is drawn from 1..MaxLatency.
MaxLatency == 2
\* The latency list is cut to its last 10000 entries (LatencyCapacity); the
\* runs that fill it cut at 1..MaxCapacity entries instead.
MaxCapacity == 2
\* get_stats is applied to every list over 1..MaxLatency of at most
\* MaxListLen entries, and to 1..n in ascending and in descending order for
\* n up to MaxRamp.
MaxListLen == 3
MaxRamp == 100

\* Timestamps stored in the rate limiters of the manager's routes.
MaxUses == 2
\* Cap of the current_index of the manager's load balancers.
MaxSelects == 1
\* Instances registered with the manager, over all services.
MaxRegistered == 3

Threads == 1..NumThreads
Clients == 1..NumClients
\* ServiceInstance's defaults.
DefaultWeight == 1
DefaultMaxConnections == 1000
\* RouteConfig's defaults.
DefaultRateLimitRequests == 1000
DefaultRateLimitWindow == 60
\* if len(self.requests_latency_ms) > 10000
LatencyCapacity == 10000
\* time.time() at construction: any positive epoch time, here the first second.
StartTime == 1

None == <<>>
Some(v) == <<v>>

\* CircuitBreaker(threshold=...): a failure ratio num/den, as <<num, den>>;
\* the default 0.5, a lower one, and the largest one the route invariant allows.
Thresholds == {<<1, 2>>, <<1, 4>>, <<1, 1>>}

VARIABLES
  now,                \* time.time()
  \* -- CircuitBreaker
  threshold,          \* self.threshold, <<num, den>>
  timeout_seconds,    \* self.timeout_seconds
  failure_count,      \* self.failure_count
  success_count,      \* self.success_count
  last_failure_time,  \* self.last_failure_time: None or Some(t)
  state,              \* self.state: "closed", "open", "half-open"
  cb_lock,            \* self.lock: 0 when free, else the thread holding it
  cb_pc,              \* each thread's position in the breaker's methods
  cb_pre,             \* the breaker's fields when the thread entered its method
  cb_time,            \* the time.time() the thread read in can_execute, or None
  cb_last,            \* the last completed call: op, ret, pre, post, at
  \* -- RateLimiter
  requests_per_window,      \* self.config.requests_per_window
  window_size_seconds,      \* self.config.window_size_seconds
  cleanup_interval_seconds, \* self.config.cleanup_interval_seconds
  buckets,                  \* self.buckets: client -> timestamps, oldest first
  rl_pre,                   \* self.buckets before the last is_allowed call
  rl_log,                   \* every is_allowed call so far: client, at, ret
  \* -- LoadBalancer
  strategy,           \* self.strategy
  instances,          \* the list passed to select_instance: weight,
                      \* max_connections, is_healthy of each instance
  current_index,      \* self.current_index
  lb_lock,            \* self.lock: 0 when free, else the thread holding it
  lb_pc,              \* each thread's position in select_instance
  lb_healthy,         \* each thread's local `healthy`: positions in instances
  lb_seen,            \* the positions whose is_healthy was true when the
                      \* thread's call read the flags
  lb_idx,             \* each thread's local idx
  lb_tmp,             \* the current_index a thread loaded for `+= 1`
  lb_ret,             \* what each thread's last call returned: None or Some(i)
  lb_log,             \* round-robin returns since the healthy set last
                      \* changed: instance and thread, in serving order
  \* -- GatewayMetrics
  requests_total,       \* self.requests_total
  requests_success,     \* self.requests_success
  requests_failed,      \* self.requests_failed
  requests_latency_ms,  \* self.requests_latency_ms, oldest first
  bytes_in,             \* self.bytes_in
  bytes_out,            \* self.bytes_out
  latency_cap,          \* the length the latency list is cut to (the literal
                        \* 10000 of record_request), fixed for a run
  gm_lock,              \* self.lock: 0 when free, else the thread holding it
  gm_pc,                \* each thread's position in the metrics' methods
  gm_recorded,          \* every latency appended so far, oldest first
  gm_done,              \* the record_request calls that have returned
  gm_snap,              \* the last get_stats: what it returned (stats), the
                        \* latency list it read (seen), gm_done at that
                        \* moment (done), the threads then inside
                        \* record_request (inside); None before the first
  \* -- APIGatewayManager
  routes,            \* self.routes: route key -> RouteConfig
  services,          \* self.services: service name -> its instances, in
                     \* registration order
  circuit_breakers,  \* self.circuit_breakers: service name -> CircuitBreaker
  rate_limiters,     \* self.rate_limiters: route key -> RateLimiter
  load_balancers,    \* self.load_balancers: service name -> LoadBalancer
  status,            \* self.status
  mg_last            \* the last call on the manager or on one of its
                     \* objects: op, the RouteConfig passed (route), and what
                     \* was there before (prev): for add_route the
                     \* RouteConfig stored under the key, for health_check
                     \* self.services

cbVars == <<threshold, timeout_seconds, failure_count, success_count,
            last_failure_time, state, cb_lock, cb_pc, cb_pre, cb_time,
            cb_last>>

rlVars == <<requests_per_window, window_size_seconds, cleanup_interval_seconds,
            buckets, rl_pre, rl_log>>

lbVars == <<strategy, instances, current_index, lb_lock, lb_pc, lb_healthy,
            lb_seen, lb_idx, lb_tmp, lb_ret, lb_log>>

gmVars == <<requests_total, requests_success, requests_failed,
            requests_latency_ms, bytes_in, bytes_out, latency_cap, gm_lock,
            gm_pc, gm_recorded, gm_done, gm_snap>>

mgVars == <<routes, services, circuit_breakers, rate_limiters,
            load_balancers, status, mg_last>>

vars == <<now, cbVars, rlVars, lbVars, gmVars, mgVars>>

\* What a call into one component leaves alone: the clock where it is not
\* read, and the other components.
notCB == <<rlVars, lbVars, gmVars, mgVars>>
notRL == <<cbVars, lbVars, gmVars, mgVars>>
notLB == <<now, cbVars, rlVars, gmVars, mgVars>>
notGM == <<now, cbVars, rlVars, lbVars, mgVars>>
notMG == <<now, cbVars, rlVars, lbVars, gmVars>>

\* ------------------------------------------------------------------ clock
\* One second passes.
Tick ==
  /\ now < MaxTime
  /\ now' = now + 1
  /\ UNCHANGED <<cbVars, rlVars, lbVars, gmVars, mgVars>>

\* ---------------------------------------------------------- CircuitBreaker
\* The fields a call can read or write.
CBFields ==
  [state |-> state, failure_count |-> failure_count,
   success_count |-> success_count, last_failure_time |-> last_failure_time]

NoFields ==
  [state |-> "none", failure_count |-> 0, success_count |-> 0,
   last_failure_time |-> None]

\* Mutant: the methods run without taking the lock.
CBLockIgnored == TRUE

\* `with self.lock:` can be entered: the lock is free.
CBLockFree == cb_lock = 0

\* Mutant: the ratio test is >= instead of >.
RatioReaches(f, total) ==
  /\ total > 0
  /\ f * threshold[2] >= threshold[1] * total

\* total > 0 and self.failure_count / total > self.threshold
RatioExceeds(f, total) ==
  /\ total > 0
  /\ f * threshold[2] > threshold[1] * total

\* Mutant: the timeout test is >= instead of >.
TimeoutReached(lft, t) ==
  /\ lft # None
  /\ lft[1] # 0
  /\ t - lft[1] >= timeout_seconds

\* self.last_failure_time and time.time() - self.last_failure_time > self.timeout_seconds
\* (None and 0.0 are both false in a Python condition)
TimeoutElapsed(lft, t) ==
  /\ lft # None
  /\ lft[1] # 0
  /\ t - lft[1] > timeout_seconds

CBInit ==
  /\ threshold \in Thresholds
  /\ timeout_seconds \in 1..MaxTimeout
  /\ failure_count = 0
  /\ success_count = 0
  /\ last_failure_time = None
  /\ state = "closed"
  /\ cb_lock = 0
  /\ cb_pc = [t \in Threads |-> "idle"]
  /\ cb_pre = [t \in Threads |-> NoFields]
  /\ cb_time = [t \in Threads |-> None]
  /\ cb_last = [op |-> "init", ret |-> "None", pre |-> NoFields,
                post |-> NoFields, at |-> StartTime]

\* A thread enters one of the three methods: it takes the lock.
CBEnter(t, op) ==
  /\ cb_pc[t] = "idle"
  /\ CBLockFree
  /\ cb_lock' = t
  /\ cb_pc' = [cb_pc EXCEPT ![t] = op]
  /\ cb_pre' = [cb_pre EXCEPT ![t] = CBFields]
  /\ UNCHANGED <<now, notCB, threshold, timeout_seconds, failure_count,
                 success_count, last_failure_time, state, cb_time, cb_last>>

\* The call returns: the lock is released and the call is recorded.
CBReturn(t, op, ret) ==
  /\ cb_lock' = IF cb_lock = t THEN 0 ELSE cb_lock
  /\ cb_pc' = [cb_pc EXCEPT ![t] = "idle"]
  /\ cb_pre' = [cb_pre EXCEPT ![t] = NoFields]
  /\ cb_time' = [cb_time EXCEPT ![t] = None]
  /\ cb_last' = [op |-> op, ret |-> ret, pre |-> cb_pre[t], post |-> CBFields',
                 at |-> IF cb_time[t] = None THEN now ELSE cb_time[t][1]]

BeginRecordSuccess(t) ==
  /\ success_count < MaxCount
  /\ CBEnter(t, "record_success")

\* Mutant: a success in half-open closes the breaker and keeps the counters.
record_success_keeps_counts(t) ==
  /\ cb_pc[t] = "record_success"
  /\ state' = IF state = "half-open" THEN "closed" ELSE state
  /\ failure_count' = failure_count
  /\ success_count' = success_count + 1
  /\ UNCHANGED <<now, notCB, threshold, timeout_seconds, last_failure_time>>
  /\ CBReturn(t, "record_success", "None")

record_success(t) ==
  /\ cb_pc[t] = "record_success"
  /\ state' = IF state = "half-open" THEN "closed" ELSE state
  /\ failure_count' = IF state = "half-open" THEN 0 ELSE failure_count
  /\ success_count' = IF state = "half-open" THEN 0 ELSE success_count + 1
  /\ UNCHANGED <<now, notCB, threshold, timeout_seconds, last_failure_time>>
  /\ CBReturn(t, "record_success", "None")

BeginRecordFailure(t) ==
  /\ failure_count < MaxCount
  /\ CBEnter(t, "record_failure")

\* Mutant: the failure time is stamped only by the failure that trips the
\* breaker.
record_failure_stamps_on_trip(t) ==
  /\ cb_pc[t] = "record_failure"
  /\ failure_count' = failure_count + 1
  /\ last_failure_time' = IF state # "open" THEN Some(now) ELSE last_failure_time
  /\ state' = IF RatioExceeds(failure_count + 1, failure_count + 1 + success_count)
                THEN "open" ELSE state
  /\ UNCHANGED <<now, notCB, threshold, timeout_seconds, success_count>>
  /\ CBReturn(t, "record_failure", "None")

record_failure(t) ==
  /\ cb_pc[t] = "record_failure"
  /\ failure_count' = failure_count + 1
  /\ last_failure_time' = Some(now)
  /\ state' = IF RatioExceeds(failure_count + 1, failure_count + 1 + success_count)
                THEN "open" ELSE state
  /\ UNCHANGED <<now, notCB, threshold, timeout_seconds, success_count>>
  /\ CBReturn(t, "record_failure", "None")

BeginCanExecute(t) ==
  CBEnter(t, "can_execute")

\* can_execute up to its return, or up to the decision to leave the open state.
can_execute(t) ==
  /\ cb_pc[t] = "can_execute"
  /\ UNCHANGED <<now, notCB, threshold, timeout_seconds, failure_count, success_count,
                 last_failure_time, state>>
  /\ IF state = "open" /\ TimeoutElapsed(last_failure_time, now)
       THEN /\ cb_pc' = [cb_pc EXCEPT ![t] = "to_half_open"]
            /\ cb_time' = [cb_time EXCEPT ![t] = Some(now)]
            /\ UNCHANGED <<cb_lock, cb_pre, cb_last>>
       ELSE CBReturn(t, "can_execute", IF state = "open" THEN "False" ELSE "True")

\* The open branch's three assignments and `return True`.
can_execute_half_open(t) ==
  /\ cb_pc[t] = "to_half_open"
  /\ state' = "half-open"
  /\ failure_count' = 0
  /\ success_count' = 0
  /\ UNCHANGED <<now, notCB, threshold, timeout_seconds, last_failure_time>>
  /\ CBReturn(t, "can_execute", "True")

CBNext ==
  \/ Tick
  \/ \E t \in Threads : BeginRecordSuccess(t)
  \/ \E t \in Threads : record_success(t)
  \/ \E t \in Threads : BeginRecordFailure(t)
  \/ \E t \in Threads : record_failure(t)
  \/ \E t \in Threads : BeginCanExecute(t)
  \/ \E t \in Threads : can_execute(t)
  \/ \E t \in Threads : can_execute_half_open(t)

\* ------------------------------------------------------------- RateLimiter
\* self.buckets[client_id] once `if client_id not in self.buckets` has run.
Bucket(c) == IF c \in DOMAIN buckets THEN buckets[c] ELSE <<>>

\* Mutant: nothing is ever pruned.
PruneNothing(seq, t) == seq

\* Mutant: the window is taken one second too short.
PruneEarly(seq, t) ==
  SelectSeq(seq, LAMBDA ts : t - ts < window_size_seconds - 1)

\* [ts for ts in self.buckets[client_id] if now - ts < window_size_seconds]
Prune(seq, t) ==
  SelectSeq(seq, LAMBDA ts : t - ts < window_size_seconds)

\* Mutant: the quota test is <= instead of <.
AdmitsOneMore(seq) == Len(seq) <= requests_per_window

\* len(self.buckets[client_id]) < self.config.requests_per_window
Admits(seq) == Len(seq) < requests_per_window

\* Mutant: the current time is appended whether or not the call is allowed.
AppendAlways(seq, t) == Append(seq, t)

\* The client's sequence when is_allowed returns.
NewBucket(seq, t) == IF Admits(seq) THEN Append(seq, t) ELSE seq

RLInit ==
  /\ requests_per_window \in 1..MaxQuota
  /\ window_size_seconds \in 1..MaxWindow
  /\ cleanup_interval_seconds \in 1..MaxCleanup
  /\ buckets = <<>>
  /\ rl_pre = <<>>
  /\ rl_log = <<>>

\* is_allowed(client_id), the whole body under self.lock.
is_allowed(c) ==
  /\ Len(rl_log) < MaxCalls
  /\ LET pruned == Prune(Bucket(c), now)
     IN /\ buckets' = [d \in DOMAIN buckets \cup {c} |->
                         IF d = c THEN NewBucket(pruned, now) ELSE buckets[d]]
        /\ rl_log' = Append(rl_log, [client |-> c, at |-> now, ret |-> Admits(pruned)])
  /\ rl_pre' = buckets
  /\ UNCHANGED <<now, notRL, requests_per_window, window_size_seconds,
                 cleanup_interval_seconds>>

RLNext ==
  \/ Tick
  \/ \E c \in Clients : is_allowed(c)

\* ------------------------------------------------------------ LoadBalancer
\* self.strategy: the three named strategies and one select_instance does
\* not know.
Strategies == {"round_robin", "least_connections", "weighted", "random"}

\* An instance is named by its position in the list.
Positions == 1..NumInstances

\* Mutant: the is_healthy filter is forgotten.
HealthyAll(insts) == [i \in 1..Len(insts) |-> i]

\* healthy = [i for i in instances if i.is_healthy]
Healthy(insts) ==
  SelectSeq([i \in 1..Len(insts) |-> i], LAMBDA i : insts[i].is_healthy)

\* Mutant: select_instance takes no lock.
LBLockIgnored == TRUE

\* `with self.lock:` can be entered: the lock is free.
LBLockFree == lb_lock = 0

\* min(healthy, key=lambda x: x.max_connections): the first of the smallest.
LeastConnections(h) ==
  h[CHOOSE j \in 1..Len(h) :
      /\ \A k \in 1..Len(h) :
           instances[h[j]].max_connections <= instances[h[k]].max_connections
      /\ \A k \in 1..(j - 1) :
           instances[h[k]].max_connections > instances[h[j]].max_connections]

\* accumulated after the first j instances of healthy
RECURSIVE Accumulated(_, _)
Accumulated(h, j) ==
  IF j = 0 THEN 0 ELSE Accumulated(h, j - 1) + instances[h[j]].weight

\* total_weight = sum(i.weight for i in healthy)
TotalWeight(h) == Accumulated(h, Len(h))

\* r = random.uniform(0, total_weight): k stands for r = k / DrawSteps
Draws(h) == 0..(TotalWeight(h) * DrawSteps)

\* The loop over healthy: the first instance with r <= accumulated, else
\* healthy[-1].
WeightedPick(h, k) ==
  LET hits == {j \in 1..Len(h) : k <= Accumulated(h, j) * DrawSteps}
  IN IF hits = {} THEN h[Len(h)]
                  ELSE h[CHOOSE j \in hits : \A m \in hits : j <= m]

\* The instances a balancer of strategy s may be given: a field the
\* strategy does not read keeps its default.
InstancesFor(s, healths) ==
  [weight : IF s = "weighted" THEN 0..MaxWeight ELSE {DefaultWeight},
   max_connections : IF s = "least_connections" THEN 1..MaxConnections
                                                ELSE {DefaultMaxConnections},
   is_healthy : healths]

\* LoadBalancer(strategy) for a strategy of S, and a list of instances whose
\* is_healthy flags are in healths.
LBStart(S, healths) ==
  /\ strategy \in S
  /\ instances \in [Positions -> InstancesFor(strategy, healths)]
  /\ current_index = 0
  /\ lb_lock = 0
  /\ lb_pc = [t \in Threads |-> "idle"]
  /\ lb_healthy = [t \in Threads |-> <<>>]
  /\ lb_seen = [t \in Threads |-> {}]
  /\ lb_idx = [t \in Threads |-> 0]
  /\ lb_tmp = [t \in Threads |-> 0]
  /\ lb_ret = [t \in Threads |-> None]
  /\ lb_log = <<>>

\* The return of a call outside the lock.
LBReturn(t, ret) ==
  /\ lb_pc' = [lb_pc EXCEPT ![t] = "done"]
  /\ lb_ret' = [lb_ret EXCEPT ![t] = ret]

\* select_instance up to the choice of the strategy: the healthy list, and
\* `return None` when it is empty.
select_instance(t) ==
  /\ lb_pc[t] \in {"idle", "done"}
  /\ lb_healthy' = [lb_healthy EXCEPT ![t] = Healthy(instances)]
  /\ lb_seen' = [lb_seen EXCEPT ![t] = {i \in Positions : instances[i].is_healthy}]
  /\ IF Healthy(instances) = <<>>
       THEN LBReturn(t, None)
       ELSE /\ lb_pc' = [lb_pc EXCEPT ![t] = "strategy"]
            /\ lb_ret' = [lb_ret EXCEPT ![t] = None]
  /\ UNCHANGED <<notLB, strategy, instances, current_index, lb_lock, lb_idx,
                 lb_tmp, lb_log>>

\* round_robin: `with self.lock:`
round_robin_lock(t) ==
  /\ lb_pc[t] = "strategy"
  /\ strategy = "round_robin"
  /\ current_index < MaxIndex
  /\ LBLockFree
  /\ lb_lock' = t
  /\ lb_pc' = [lb_pc EXCEPT ![t] = "rr_index"]
  /\ UNCHANGED <<notLB, strategy, instances, current_index, lb_healthy, lb_seen,
                 lb_idx, lb_tmp, lb_ret, lb_log>>

\* idx = self.current_index % len(healthy)
round_robin_index(t) ==
  /\ lb_pc[t] = "rr_index"
  /\ lb_idx' = [lb_idx EXCEPT ![t] = current_index % Len(lb_healthy[t])]
  /\ lb_pc' = [lb_pc EXCEPT ![t] = "rr_load"]
  /\ UNCHANGED <<notLB, strategy, instances, current_index, lb_lock, lb_healthy,
                 lb_seen, lb_tmp, lb_ret, lb_log>>

\* self.current_index += 1, the read
round_robin_load(t) ==
  /\ lb_pc[t] = "rr_load"
  /\ lb_tmp' = [lb_tmp EXCEPT ![t] = current_index]
  /\ lb_pc' = [lb_pc EXCEPT ![t] = "rr_store"]
  /\ UNCHANGED <<notLB, strategy, instances, current_index, lb_lock, lb_healthy,
                 lb_seen, lb_idx, lb_ret, lb_log>>

\* self.current_index += 1, the write; return healthy[idx]; the lock is released
round_robin_return(t) ==
  /\ lb_pc[t] = "rr_store"
  /\ current_index' = lb_tmp[t] + 1
  /\ lb_lock' = IF lb_lock = t THEN 0 ELSE lb_lock
  /\ lb_idx' = [lb_idx EXCEPT ![t] = 0]
  /\ lb_tmp' = [lb_tmp EXCEPT ![t] = 0]
  /\ lb_log' = Append(lb_log, [instance |-> lb_healthy[t][lb_idx[t] + 1], thread |-> t])
  /\ LBReturn(t, Some(lb_healthy[t][lb_idx[t] + 1]))
  /\ UNCHANGED <<notLB, strategy, instances, lb_healthy, lb_seen>>

least_connections(t) ==
  /\ lb_pc[t] = "strategy"
  /\ strategy = "least_connections"
  /\ LBReturn(t, Some(LeastConnections(lb_healthy[t])))
  /\ UNCHANGED <<notLB, strategy, instances, current_index, lb_lock, lb_healthy,
                 lb_seen, lb_idx, lb_tmp, lb_log>>

weighted(t) ==
  /\ lb_pc[t] = "strategy"
  /\ strategy = "weighted"
  /\ IF TotalWeight(lb_healthy[t]) = 0
       THEN LBReturn(t, Some(lb_healthy[t][1]))
       ELSE \E k \in Draws(lb_healthy[t]) :
              LBReturn(t, Some(WeightedPick(lb_healthy[t], k)))
  /\ UNCHANGED <<notLB, strategy, instances, current_index, lb_lock, lb_healthy,
                 lb_seen, lb_idx, lb_tmp, lb_log>>

\* Any other strategy: the final `return healthy[0]`.
first_healthy(t) ==
  /\ lb_pc[t] = "strategy"
  /\ strategy \notin {"round_robin", "least_connections", "weighted"}
  /\ LBReturn(t, Some(lb_healthy[t][1]))
  /\ UNCHANGED <<notLB, strategy, instances, current_index, lb_lock, lb_healthy,
                 lb_seen, lb_idx, lb_tmp, lb_log>>

\* The health prober, or traffic feedback, sets an instance's is_healthy.
set_health(i) ==
  /\ instances' = [instances EXCEPT ![i].is_healthy = ~@]
  /\ lb_log' = <<>>
  /\ UNCHANGED <<notLB, strategy, current_index, lb_lock, lb_pc, lb_healthy,
                 lb_seen, lb_idx, lb_tmp, lb_ret>>

\* One call's steps.
LBCall(t) ==
  \/ select_instance(t)
  \/ round_robin_lock(t)
  \/ round_robin_index(t)
  \/ round_robin_load(t)
  \/ round_robin_return(t)
  \/ least_connections(t)
  \/ weighted(t)
  \/ first_healthy(t)

\* One caller at a time, any strategy, while instances change health.
OneCaller == {CHOOSE t \in Threads : \A u \in Threads : t <= u}

LBNext ==
  \/ \E t \in OneCaller : LBCall(t)
  \/ \E i \in Positions : set_health(i)

\* Round-robin calls from every thread over instances whose health stays.
RRNext ==
  \E t \in Threads :
    \/ select_instance(t)
    \/ round_robin_lock(t)
    \/ round_robin_index(t)
    \/ round_robin_load(t)
    \/ round_robin_return(t)

\* ----------------------------------------------------------- GatewayMetrics
\* Mutant: record_request and get_stats do not take the lock.
GMLockIgnored == TRUE

\* with self.lock: the lock can be taken when nobody holds it.
GMLockFree == gm_lock = 0

\* The (bytes_in, bytes_out) a call reports: one byte in, two out.
ByteCounts == {<<1, 2>>}

\* The arguments of one record_request call.
RecordArgs ==
  [success : BOOLEAN, latency_ms : 1..MaxLatency, bytes : ByteCounts]

\* Mutant: the list is cut to its first entries, dropping the newest.
TrimKeepsOldest(seq, cap) ==
  IF Len(seq) > cap THEN SubSeq(seq, 1, cap) ELSE seq

\* if len(l) > 10000: l = l[-10000:], with cap for the literal.
Trim(seq, cap) ==
  IF Len(seq) > cap THEN SubSeq(seq, Len(seq) - cap + 1, Len(seq)) ELSE seq

\* sum(latencies)
RECURSIVE Sum(_)
Sum(seq) ==
  IF seq = <<>> THEN 0
  ELSE IF Len(seq) = 1 THEN seq[1]
  ELSE LET h == Len(seq) \div 2
       IN Sum(SubSeq(seq, 1, h)) + Sum(SubSeq(seq, h + 1, Len(seq)))

\* Two ascending lists merged into one, entries of a before equal ones of b.
\* pa and pb are the places the entries of a and of b take in the result.
Merge(a, b) ==
  LET n == Len(a) + Len(b)
      pa == SubSeq([i \in 1..Len(a) |->
                      i + Cardinality({j \in 1..Len(b) : b[j] < a[i]})],
                   1, Len(a))
      pb == SubSeq([j \in 1..Len(b) |->
                      j + Cardinality({i \in 1..Len(a) : a[i] <= b[j]})],
                   1, Len(b))
  IN SubSeq([k \in 1..n |->
               IF \E i \in 1..Len(a) : pa[i] = k
               THEN a[CHOOSE i \in 1..Len(a) : pa[i] = k]
               ELSE b[CHOOSE j \in 1..Len(b) : pb[j] = k]],
            1, n)

\* Mutant: the list is read in arrival order.
Unsorted(seq) == seq

\* sorted(latencies): ascending, by merging the sorted halves.
RECURSIVE Sorted(_)
Sorted(seq) ==
  IF Len(seq) <= 1 THEN seq
  ELSE LET h == Len(seq) \div 2
       IN Merge(Sorted(SubSeq(seq, 1, h)), Sorted(SubSeq(seq, h + 1, Len(seq))))

\* int(len(latencies) * 0.95) and int(len(latencies) * 0.99): the float
\* product truncated. For every length up to LatencyCapacity it is the
\* integer quotient of n * pct by 100.
PercentileIndex(n, pct) == (n * pct) \div 100

\* sorted(latencies)[int(len(latencies) * p)] if latencies else 0; the list
\* index is 0-based in the code, 1-based here.
Percentile(seq, pct) ==
  IF seq = <<>> THEN 0 ELSE Sorted(seq)[PercentileIndex(Len(seq), pct) + 1]

\* sum(latencies) / len(latencies) if latencies else 0, as <<num, den>>.
Average(seq) == IF seq = <<>> THEN <<0, 1>> ELSE <<Sum(seq), Len(seq)>>

\* max(1, self.requests_total)
Max1(n) == IF n > 1 THEN n ELSE 1

\* The dict get_stats returns; the two quotients as <<num, den>>.
Stats ==
  [requests_total   |-> requests_total,
   requests_success |-> requests_success,
   requests_failed  |-> requests_failed,
   success_rate     |-> <<requests_success, Max1(requests_total)>>,
   avg_latency_ms   |-> Average(requests_latency_ms),
   p95_latency_ms   |-> Percentile(requests_latency_ms, 95),
   p99_latency_ms   |-> Percentile(requests_latency_ms, 99),
   bytes_in         |-> bytes_in,
   bytes_out        |-> bytes_out]

\* The threads inside record_request: called and not yet returned.
InRecordRequest ==
  {t \in Threads : gm_pc[t] \in {"record_request", "total", "outcome"}}

\* GatewayMetrics holding the latencies lat after Len(lat) calls, ok of them
\* successful and each reporting the bytes b, under the capacity cap.
GMLoaded(cap, lat, ok, b) ==
  /\ requests_total = Len(lat)
  /\ requests_success = ok
  /\ requests_failed = Len(lat) - ok
  /\ requests_latency_ms = lat
  /\ bytes_in = b[1] * Len(lat)
  /\ bytes_out = b[2] * Len(lat)
  /\ latency_cap = cap
  /\ gm_lock = 0
  /\ gm_pc = [t \in Threads |-> "idle"]
  /\ gm_recorded = lat
  /\ gm_done = Len(lat)
  /\ gm_snap = None

\* GatewayMetrics(): all zero, no latencies.
GMInit == \E cap \in 1..MaxCapacity : GMLoaded(cap, <<>>, 0, <<0, 0>>)

\* A thread calls record_request and reaches `with self.lock`.
call_record_request(t) ==
  /\ gm_pc[t] = "idle"
  /\ gm_done + Cardinality(InRecordRequest) < MaxRecords
  /\ gm_pc' = [gm_pc EXCEPT ![t] = "record_request"]
  /\ UNCHANGED <<notGM, requests_total, requests_success, requests_failed,
                 requests_latency_ms, bytes_in, bytes_out, latency_cap,
                 gm_lock, gm_recorded, gm_done, gm_snap>>

\* with self.lock, in record_request.
record_request_lock(t) ==
  /\ gm_pc[t] = "record_request"
  /\ GMLockFree
  /\ gm_lock' = t
  /\ gm_pc' = [gm_pc EXCEPT ![t] = "total"]
  /\ UNCHANGED <<notGM, requests_total, requests_success, requests_failed,
                 requests_latency_ms, bytes_in, bytes_out, latency_cap,
                 gm_recorded, gm_done, gm_snap>>

\* self.requests_total += 1
record_request_total(t) ==
  /\ gm_pc[t] = "total"
  /\ requests_total' = requests_total + 1
  /\ gm_pc' = [gm_pc EXCEPT ![t] = "outcome"]
  /\ UNCHANGED <<notGM, requests_success, requests_failed,
                 requests_latency_ms, bytes_in, bytes_out, latency_cap,
                 gm_lock, gm_recorded, gm_done, gm_snap>>

\* The rest of record_request, where the arguments are read: the outcome
\* counter, the latency, the bytes, the cut to the capacity; then the lock is
\* released and the call returns.
record_request(t) ==
  /\ gm_pc[t] = "outcome"
  /\ \E a \in RecordArgs :
        /\ requests_success' = requests_success + (IF a.success THEN 1 ELSE 0)
        /\ requests_failed' = requests_failed + (IF a.success THEN 0 ELSE 1)
        /\ requests_latency_ms' =
             Trim(Append(requests_latency_ms, a.latency_ms), latency_cap)
        /\ bytes_in' = bytes_in + a.bytes[1]
        /\ bytes_out' = bytes_out + a.bytes[2]
        /\ gm_recorded' = Append(gm_recorded, a.latency_ms)
  /\ gm_lock' = 0
  /\ gm_pc' = [gm_pc EXCEPT ![t] = "idle"]
  /\ gm_done' = gm_done + 1
  /\ UNCHANGED <<notGM, requests_total, latency_cap, gm_snap>>

\* A thread calls get_stats and reaches `with self.lock`.
call_get_stats(t) ==
  /\ gm_pc[t] = "idle"
  /\ gm_pc' = [gm_pc EXCEPT ![t] = "get_stats"]
  /\ UNCHANGED <<notGM, requests_total, requests_success, requests_failed,
                 requests_latency_ms, bytes_in, bytes_out, latency_cap,
                 gm_lock, gm_recorded, gm_done, gm_snap>>

\* with self.lock, in get_stats.
get_stats_lock(t) ==
  /\ gm_pc[t] = "get_stats"
  /\ GMLockFree
  /\ gm_lock' = t
  /\ gm_pc' = [gm_pc EXCEPT ![t] = "snapshot"]
  /\ UNCHANGED <<notGM, requests_total, requests_success, requests_failed,
                 requests_latency_ms, bytes_in, bytes_out, latency_cap,
                 gm_recorded, gm_done, gm_snap>>

\* The dict is built from the fields; the lock is released on return.
get_stats(t) ==
  /\ gm_pc[t] = "snapshot"
  /\ gm_snap' = Some([stats  |-> Stats,
                      seen   |-> requests_latency_ms,
                      done   |-> gm_done,
                      inside |-> InRecordRequest])
  /\ gm_lock' = 0
  /\ gm_pc' = [gm_pc EXCEPT ![t] = "idle"]
  /\ UNCHANGED <<notGM, requests_total, requests_success, requests_failed,
                 requests_latency_ms, bytes_in, bytes_out, latency_cap,
                 gm_recorded, gm_done>>

GMCall(t) ==
  \/ call_record_request(t)
  \/ record_request_lock(t)
  \/ record_request_total(t)
  \/ record_request(t)

GMRead(t) ==
  \/ call_get_stats(t)
  \/ get_stats_lock(t)
  \/ get_stats(t)

GMNext == \E t \in Threads : GMCall(t) \/ GMRead(t)

\* get_stats alone, called by one thread.
StatsNext == \E t \in OneCaller : GMRead(t)

\* 1..n in ascending and in descending order.
Ramp(n) == [i \in 1..n |-> i]
Down(n) == [i \in 1..n |-> n + 1 - i]

\* The latency lists get_stats is applied to.
StatsInputs ==
  UNION {[1..k -> 1..MaxLatency] : k \in 0..MaxListLen}
    \cup {Ramp(n) : n \in 1..MaxRamp} \cup {Down(n) : n \in 1..MaxRamp}

\* GatewayMetrics after the calls that recorded one of these lists.
StatsInit ==
  \E lat \in StatsInputs :
    \E ok \in {0, Len(lat) \div 2, Len(lat)} :
      GMLoaded(LatencyCapacity, lat, ok, <<1, 2>>)

\* A GatewayMetrics nobody calls.
GMQuiet == GMLoaded(LatencyCapacity, <<>>, 0, <<0, 0>>)

\* -------------------------------------------------------- APIGatewayManager
\* RouteConfig(method=..., path=..., backend_service=...).
Methods == {"GET", "POST"}
Paths == {"/api/v1/health"}
ServiceNames == {"health-check", "users"}

\* RouteConfig(rate_limit_requests=..., rate_limit_window_seconds=...): the
\* defaults, and the smallest quota and window.
RouteLimits ==
  {<<DefaultRateLimitRequests, DefaultRateLimitWindow>>, <<1, 1>>}

\* The fields of RouteConfig that add_route reads.
RouteConfigs ==
  {[path |-> p, method |-> m, backend_service |-> b,
    rate_limit_requests |-> l[1], rate_limit_window_seconds |-> l[2]] :
     p \in Paths, m \in Methods, b \in ServiceNames, l \in RouteLimits}

\* The RouteConfig of _initialize_defaults.
DefaultRoute ==
  [path |-> "/api/v1/health", method |-> "GET",
   backend_service |-> "health-check",
   rate_limit_requests |-> DefaultRateLimitRequests,
   rate_limit_window_seconds |-> DefaultRateLimitWindow]

\* f"{route.method}:{route.path}"
route_key(route) == route.method \o ":" \o route.path

\* The keys add_route can store a route under.
RouteKeys == {route_key(route) : route \in RouteConfigs}

\* d[k] = v
Put(d, k, v) == [x \in DOMAIN d \cup {k} |-> IF x = k THEN v ELSE d[x]]

\* How many objects have been constructed for the key k of d; an object
\* carries this number as its identity.
Serial(d, k) == IF k \in DOMAIN d THEN d[k].serial ELSE 0

\* RateLimiter(RateLimitConfig(SLIDING_WINDOW, route.rate_limit_requests,
\* route.rate_limit_window_seconds)), the n-th made for its key.
NewLimiter(route, n) ==
  [serial |-> n,
   requests_per_window |-> route.rate_limit_requests,
   window_size_seconds |-> route.rate_limit_window_seconds,
   buckets |-> <<>>]

\* LoadBalancer(), the n-th made for its service.
NewBalancer(n) ==
  [serial |-> n, strategy |-> "round_robin", current_index |-> 0]

\* CircuitBreaker(), the n-th made for its service.
NewBreaker(n) ==
  [serial |-> n, state |-> "closed", failure_count |-> 0, success_count |-> 0,
   last_failure_time |-> None]

\* if route.backend_service not in self.load_balancers: ... = LoadBalancer()
WithBalancer(lbs, route) ==
  IF route.backend_service \in DOMAIN lbs THEN lbs
  ELSE Put(lbs, route.backend_service, NewBalancer(1))

\* Mutant: a rate limiter is constructed on every add_route.
WithNewLimiter(rls, route) ==
  Put(rls, route_key(route),
      NewLimiter(route, Serial(rls, route_key(route)) + 1))

\* if route_key not in self.rate_limiters: ... = RateLimiter(...)
WithLimiter(rls, route) ==
  IF route_key(route) \in DOMAIN rls THEN rls
  ELSE Put(rls, route_key(route), NewLimiter(route, 1))

\* APIGatewayManager(): load_config adds nothing when the configuration file
\* exists and parses, and the default route otherwise.
MGStart(file) ==
  /\ routes = IF file THEN <<>>
              ELSE Put(<<>>, route_key(DefaultRoute), DefaultRoute)
  /\ load_balancers = IF file THEN <<>> ELSE WithBalancer(<<>>, DefaultRoute)
  /\ rate_limiters = IF file THEN <<>> ELSE WithLimiter(<<>>, DefaultRoute)
  /\ services = <<>>
  /\ circuit_breakers = <<>>
  /\ status = "healthy"
  /\ mg_last = [op |-> "__init__", route |-> None, prev |-> None]

MGInit == \E file \in BOOLEAN : MGStart(file)

\* add_route(route)
add_route(route) ==
  /\ routes' = Put(routes, route_key(route), route)
  /\ load_balancers' = WithBalancer(load_balancers, route)
  /\ rate_limiters' = WithLimiter(rate_limiters, route)
  /\ mg_last' = [op |-> "add_route", route |-> Some(route),
                 prev |-> IF route_key(route) \in DOMAIN routes
                          THEN Some(routes[route_key(route)]) ELSE None]
  /\ UNCHANGED <<notMG, services, circuit_breakers, status>>

\* The timestamps stored in all rate limiters of the manager.
StoredTimestamps ==
  UNION {{<<kc[1], kc[2], i>> :
            i \in 1..Len(rate_limiters[kc[1]].buckets[kc[2]])} :
           kc \in {x \in (DOMAIN rate_limiters) \X Clients :
                     x[2] \in DOMAIN rate_limiters[x[1]].buckets}}

\* self.rate_limiters[key].is_allowed(c), called by the request path.
limiter_is_allowed(key, c) ==
  /\ key \in DOMAIN rate_limiters
  /\ Cardinality(StoredTimestamps) < MaxUses
  /\ LET rl == rate_limiters[key]
         old == IF c \in DOMAIN rl.buckets THEN rl.buckets[c] ELSE <<>>
         pruned == SelectSeq(old, LAMBDA ts : now - ts < rl.window_size_seconds)
         new == IF Len(pruned) < rl.requests_per_window
                THEN Append(pruned, now) ELSE pruned
     IN rate_limiters' =
          [rate_limiters EXCEPT ![key].buckets = Put(rl.buckets, c, new)]
  /\ mg_last' = [op |-> "is_allowed", route |-> None, prev |-> None]
  /\ UNCHANGED <<notMG, routes, services, circuit_breakers, load_balancers,
                 status>>

\* self.load_balancers[svc].select_instance(instances) with a healthy
\* instance in the list: round robin advances current_index.
balancer_select(svc) ==
  /\ svc \in DOMAIN load_balancers
  /\ load_balancers[svc].current_index < MaxSelects
  /\ load_balancers' =
       [load_balancers EXCEPT ![svc].current_index = @ + 1]
  /\ mg_last' = [op |-> "select_instance", route |-> None, prev |-> None]
  /\ UNCHANGED <<notMG, routes, services, circuit_breakers, rate_limiters,
                 status>>

\* The instances of all services, each as <<service name, position>>.
AllInstances(svcs) ==
  UNION {{<<n, i>> : i \in 1..Len(svcs[n])} : n \in DOMAIN svcs}

\* The instances whose is_healthy is true.
HealthyInstances(svcs) ==
  {p \in AllInstances(svcs) : svcs[p[1]][p[2]].is_healthy}

\* register_service(service_name, instance)
register_service(svc, healthy) ==
  /\ Cardinality(AllInstances(services)) < MaxRegistered
  /\ services' =
       Put(services, svc,
           Append(IF svc \in DOMAIN services THEN services[svc] ELSE <<>>,
                  [is_healthy |-> healthy]))
  /\ circuit_breakers' =
       IF svc \in DOMAIN services THEN circuit_breakers
       ELSE Put(circuit_breakers, svc,
                NewBreaker(Serial(circuit_breakers, svc) + 1))
  /\ mg_last' = [op |-> "register_service", route |-> None, prev |-> None]
  /\ UNCHANGED <<notMG, routes, rate_limiters, load_balancers, status>>

\* instance.is_healthy = not instance.is_healthy, by whoever probes the
\* instance.
set_instance_health(svc, i) ==
  /\ svc \in DOMAIN services
  /\ i \in 1..Len(services[svc])
  /\ services' = [services EXCEPT ![svc][i].is_healthy = ~@]
  /\ mg_last' = [op |-> "set_health", route |-> None, prev |-> None]
  /\ UNCHANGED <<notMG, routes, circuit_breakers, rate_limiters,
                 load_balancers, status>>

\* num / den > p / q, for positive den and q.
QuotientAbove(num, den, p, q) == num * q > p * den

\* The status health_check computes: health_ratio is the number of healthy
\* instances over twice the number of services; above 0.75 healthy, above
\* 0.5 degraded, else unhealthy; healthy without services.
HealthStatus(svcs) ==
  LET total_services == Cardinality(DOMAIN svcs)
      healthy_services == Cardinality(HealthyInstances(svcs))
  IN IF total_services = 0 THEN "healthy"
     ELSE IF QuotientAbove(healthy_services, total_services * 2, 3, 4)
          THEN "healthy"
     ELSE IF QuotientAbove(healthy_services, total_services * 2, 1, 2)
          THEN "degraded"
     ELSE "unhealthy"

\* health_check()
health_check ==
  /\ status' = HealthStatus(services)
  /\ mg_last' = [op |-> "health_check", route |-> None,
                 prev |-> Some(services)]
  /\ UNCHANGED <<notMG, routes, services, circuit_breakers, rate_limiters,
                 load_balancers>>

RoutesNext ==
  \/ \E route \in RouteConfigs : add_route(route)
  \/ \E key \in RouteKeys : \E c \in Clients : limiter_is_allowed(key, c)
  \/ \E svc \in ServiceNames : balancer_select(svc)

HealthNext ==
  \/ \E svc \in ServiceNames : \E healthy \in BOOLEAN :
       register_service(svc, healthy)
  \/ \E svc \in ServiceNames : \E i \in 1..MaxRegistered :
       set_instance_health(svc, i)
  \/ health_check

\* An APIGatewayManager nobody calls, constructed without a configuration
\* file.
MGQuiet == MGStart(FALSE)

\* ------------------------------------------------------------ specifications
\* A component nobody calls: one fixed configuration of it, never changing.
RLQuiet ==
  /\ RLInit
  /\ requests_per_window = 1
  /\ window_size_seconds = 1
  /\ cleanup_interval_seconds = 1

CBQuiet ==
  /\ CBInit
  /\ threshold = <<1, 2>>
  /\ timeout_seconds = 1

LBInit == LBStart(Strategies, BOOLEAN)

\* A new LoadBalancer() over instances as constructed: healthy.
LBQuiet == LBStart({"round_robin"}, {TRUE})

Init ==
  /\ now = StartTime
  /\ CBInit
  /\ RLInit
  /\ LBInit
  /\ GMInit
  /\ MGInit

Next ==
  \/ CBNext
  \/ RLNext
  \/ \E t \in Threads : LBCall(t)
  \/ \E i \in Positions : set_health(i)
  \/ GMNext
  \/ RoutesNext
  \/ HealthNext

\* The three components side by side.
Spec == Init /\ [][Next]_vars

\* One CircuitBreaker called by the request threads.
InitCB ==
  /\ now = StartTime
  /\ CBInit
  /\ RLQuiet
  /\ LBQuiet
  /\ GMQuiet
  /\ MGQuiet

SpecCB == InitCB /\ [][CBNext]_vars

\* One RateLimiter called by the clients.
InitRL ==
  /\ now = StartTime
  /\ CBQuiet
  /\ RLInit
  /\ LBQuiet
  /\ GMQuiet
  /\ MGQuiet

SpecRL == InitRL /\ [][RLNext]_vars

\* One LoadBalancer of any strategy, its instances healthy at first.
InitLB ==
  /\ now = StartTime
  /\ CBQuiet
  /\ RLQuiet
  /\ LBStart(Strategies, {TRUE})
  /\ GMQuiet
  /\ MGQuiet

SpecLB == InitLB /\ [][LBNext]_vars

\* One round-robin LoadBalancer over a healthy set that does not change.
InitRR ==
  /\ now = StartTime
  /\ CBQuiet
  /\ RLQuiet
  /\ LBStart({"round_robin"}, BOOLEAN)
  /\ GMQuiet
  /\ MGQuiet

SpecRR == InitRR /\ [][RRNext]_vars

\* One GatewayMetrics called by the request threads.
InitGM ==
  /\ now = StartTime
  /\ CBQuiet
  /\ RLQuiet
  /\ LBQuiet
  /\ GMInit
  /\ MGQuiet

SpecGM == InitGM /\ [][GMNext]_vars

\* get_stats applied to the latency lists of StatsInputs.
InitStats ==
  /\ now = StartTime
  /\ CBQuiet
  /\ RLQuiet
  /\ LBQuiet
  /\ StatsInit
  /\ MGQuiet

SpecStats == InitStats /\ [][StatsNext]_vars

\* One APIGatewayManager given routes, its limiters and balancers in use.
InitRoutes ==
  /\ now = StartTime
  /\ CBQuiet
  /\ RLQuiet
  /\ LBQuiet
  /\ GMQuiet
  /\ MGInit

SpecRoutes == InitRoutes /\ [][RoutesNext]_vars

\* One APIGatewayManager given service instances and asked for its health.
InitHealth ==
  /\ now = StartTime
  /\ CBQuiet
  /\ RLQuiet
  /\ LBQuiet
  /\ GMQuiet
  /\ MGInit

SpecHealth == InitHealth /\ [][HealthNext]_vars

\* ------------------------------------------------- CircuitBreaker: claims
\* C1: in the closed state can_execute returns true; every record_failure
\* adds one to failure_count and stamps last_failure_time with the time it
\* read, and from closed it opens the breaker exactly when the new
\* failure_count / (failure_count + success_count) is strictly above the
\* threshold (a ratio equal to the threshold leaves it closed).
C1_ClosedContract ==
  LET pre == cb_last.pre
      post == cb_last.post
  IN /\ (cb_last.op = "can_execute" /\ pre.state = "closed")
          => cb_last.ret = "True"
     /\ cb_last.op = "record_failure"
          => /\ post.failure_count = pre.failure_count + 1
             /\ post.last_failure_time = <<cb_last.at>>
             /\ pre.state = "closed"
                  => /\ post.state \in {"closed", "open"}
                     /\ post.state = "open"
                          <=> post.failure_count * threshold[2]
                                > threshold[1] * (post.failure_count + post.success_count)

\* C1 witness: a record_failure on a closed breaker that brought the ratio
\* exactly to the threshold and left the breaker closed.
C1_Witness ==
  /\ cb_last.op = "record_failure"
  /\ cb_last.pre.state = "closed"
  /\ cb_last.post.state = "closed"
  /\ cb_last.post.success_count > 0
  /\ cb_last.post.failure_count * threshold[2]
       = threshold[1] * (cb_last.post.failure_count + cb_last.post.success_count)

\* C2: a can_execute entered while the breaker is open returns false and
\* leaves every field as it was on entry, unless the time it read minus
\* last_failure_time is strictly above timeout_seconds; then the same call
\* sets half-open, zeroes both counters, changes nothing else and returns
\* true. Entry and return are compared across all interleavings of threads.
C2_OpenContract ==
  LET pre == cb_last.pre
      post == cb_last.post
  IN (cb_last.op = "can_execute" /\ pre.state = "open")
       => IF /\ pre.last_failure_time # <<>>
             /\ cb_last.at - pre.last_failure_time[1] > timeout_seconds
            THEN /\ cb_last.ret = "True"
                 /\ post = [state |-> "half-open", failure_count |-> 0,
                            success_count |-> 0,
                            last_failure_time |-> pre.last_failure_time]
            ELSE /\ cb_last.ret = "False"
                 /\ post = pre

\* C2 witness: a can_execute that found the breaker open after the timeout
\* and returned true, leaving it half-open.
C2_Witness ==
  /\ cb_last.op = "can_execute"
  /\ cb_last.pre.state = "open"
  /\ cb_last.ret = "True"
  /\ cb_last.post.state = "half-open"

\* C3: in half-open can_execute returns true, a record_success closes the
\* breaker with both counters zero, and a record_failure adds one failure to
\* counters that restarted from zero (no success is ever counted in
\* half-open) and reopens the breaker exactly when the strict ratio rule says.
C3_HalfOpenContract ==
  LET pre == cb_last.pre
      post == cb_last.post
  IN /\ state = "half-open" => success_count = 0
     /\ (cb_last.op = "can_execute" /\ pre.state = "half-open")
          => cb_last.ret = "True"
     /\ (cb_last.op = "record_success" /\ pre.state = "half-open")
          => /\ post.state = "closed"
             /\ post.failure_count = 0
             /\ post.success_count = 0
     /\ (cb_last.op = "record_failure" /\ pre.state = "half-open")
          => /\ post.failure_count = pre.failure_count + 1
             /\ post.success_count = pre.success_count
             /\ post.state \in {"half-open", "open"}
             /\ post.state = "open"
                  <=> post.failure_count * threshold[2]
                        > threshold[1] * (post.failure_count + post.success_count)

\* C3 witness: a record_failure on a half-open breaker counted its first
\* failure since the reset and reopened the breaker.
C3_Witness ==
  /\ cb_last.op = "record_failure"
  /\ cb_last.pre.state = "half-open"
  /\ cb_last.post.failure_count = 1
  /\ cb_last.post.state = "open"

\* C4: every step that changes the state is closed->open or half-open->open
\* by a record_failure whose new ratio is above the threshold, open->half-open
\* by a can_execute that read a time more than timeout_seconds after
\* last_failure_time, or half-open->closed by a record_success; there is no
\* closed->half-open and no open->closed step, and a record_success on a
\* closed or open breaker leaves the state alone.
C4_StepOK ==
  /\ (state = "closed" /\ state' = "open")
       => /\ \E t \in Threads : cb_pc[t] = "record_failure" /\ cb_pc'[t] = "idle"
          /\ failure_count' * threshold[2]
               > threshold[1] * (failure_count' + success_count')
  /\ (state = "open" /\ state' = "half-open")
       => \E t \in Threads :
            /\ cb_pc[t] = "to_half_open" /\ cb_pc'[t] = "idle"
            /\ cb_time[t] # <<>>
            /\ last_failure_time # <<>>
            /\ cb_time[t][1] - last_failure_time[1] > timeout_seconds
  /\ (state = "half-open" /\ state' = "closed")
       => \E t \in Threads : cb_pc[t] = "record_success" /\ cb_pc'[t] = "idle"
  /\ ~(state = "closed" /\ state' = "half-open")
  /\ ~(state = "open" /\ state' = "closed")
  /\ (/\ \E t \in Threads : cb_pc[t] = "record_success" /\ cb_pc'[t] = "idle"
      /\ state \in {"closed", "open"})
       => state' = state

C4_Transitions == [][C4_StepOK]_vars

\* C4 witness: the breaker went round the whole cycle: the last call was a
\* record_success that closed a half-open breaker.
C4_Witness ==
  /\ cb_last.op = "record_success"
  /\ cb_last.pre.state = "half-open"
  /\ cb_last.post.state = "closed"
  /\ state = "closed"

\* C20: an open breaker always has a last failure time, and a positive one;
\* a can_execute entered on an open breaker returns true, leaving it
\* half-open, exactly when it read a time more than timeout_seconds after
\* that last failure; a record_failure on an open breaker keeps it open and
\* moves the last failure time to the time of that failure, so the timeout
\* runs from there.
C20_NeverStuckOpen ==
  LET pre == cb_last.pre
      post == cb_last.post
  IN /\ state = "open" => (last_failure_time # <<>> /\ last_failure_time[1] > 0)
     /\ (cb_last.op = "can_execute" /\ pre.state = "open")
          => /\ pre.last_failure_time # <<>>
             /\ (cb_last.ret = "True")
                  = (cb_last.at - pre.last_failure_time[1] > timeout_seconds)
             /\ cb_last.ret = "True" => post.state = "half-open"
     /\ (cb_last.op = "record_failure" /\ pre.state = "open")
          => /\ post.state = "open"
             /\ post.last_failure_time = <<cb_last.at>>

\* C20 witness: a record_failure on an open breaker moved the last failure
\* time forward.
C20_Witness ==
  /\ cb_last.op = "record_failure"
  /\ cb_last.pre.state = "open"
  /\ cb_last.pre.last_failure_time # <<>>
  /\ cb_last.post.last_failure_time[1] > cb_last.pre.last_failure_time[1]

\* ---------------------------------------------------- RateLimiter: claims
\* The earlier calls of the same client as call i that were allowed.
AdmittedBefore(i) ==
  {j \in 1..(i - 1) : rl_log[j].client = rl_log[i].client /\ rl_log[j].ret}

\* At call i the client has no allowed request left inside the window.
EmptyHistoryAt(i) ==
  \A j \in AdmittedBefore(i) : rl_log[i].at - rl_log[j].at >= window_size_seconds

\* How many calls the client of call i made from call i up to call k.
CallsFrom(i, k) ==
  Cardinality({j \in i..k : rl_log[j].client = rl_log[i].client})

\* C5: counting a client's calls from one made with an empty history, every
\* call that comes less than window_size_seconds after that first one is
\* allowed while it is among the first requests_per_window and is denied when
\* it is number requests_per_window + 1; and a call made more than
\* window_size_seconds after every allowed request of its client is allowed.
C5_QuotaThenRefill ==
  \A i \in 1..Len(rl_log) :
    /\ EmptyHistoryAt(i)
         => \A k \in i..Len(rl_log) :
              (/\ rl_log[k].client = rl_log[i].client
               /\ rl_log[k].at - rl_log[i].at < window_size_seconds)
                => /\ CallsFrom(i, k) <= requests_per_window => rl_log[k].ret
                   /\ CallsFrom(i, k) = requests_per_window + 1 => ~rl_log[k].ret
    /\ (\A j \in AdmittedBefore(i) : rl_log[i].at - rl_log[j].at > window_size_seconds)
         => rl_log[i].ret

\* C5 witness: with a quota of at least 2, a client used its quota inside one
\* window, was denied the next call in that window, and was allowed again
\* more than a window after its allowed requests.
C5_Witness ==
  /\ requests_per_window >= 2
  /\ \E i, j, k \in 1..Len(rl_log) :
       /\ i < j /\ j < k
       /\ rl_log[j].client = rl_log[i].client
       /\ rl_log[k].client = rl_log[i].client
       /\ AdmittedBefore(i) = {}
       /\ CallsFrom(i, j) = requests_per_window + 1
       /\ rl_log[j].at - rl_log[i].at < window_size_seconds
       /\ ~rl_log[j].ret
       /\ \A a \in AdmittedBefore(k) : rl_log[k].at - rl_log[a].at > window_size_seconds
       /\ rl_log[k].ret

\* C6: after a denied is_allowed the client map, keys and sequences, is what
\* it was before the call; after an allowed one the caller's sequence ends
\* with the time of the call and every other client's sequence is untouched.
C6_DeniedLeavesMap ==
  rl_log # <<>>
    => LET last == rl_log[Len(rl_log)]
       IN IF last.ret
            THEN /\ last.client \in DOMAIN buckets
                 /\ buckets[last.client] # <<>>
                 /\ buckets[last.client][Len(buckets[last.client])] = last.at
                 /\ \A d \in DOMAIN rl_pre \ {last.client} :
                      d \in DOMAIN buckets /\ buckets[d] = rl_pre[d]
            ELSE buckets = rl_pre

\* C6 witness: the last call was denied while another client also had a
\* stored sequence.
C6_Witness ==
  /\ rl_log # <<>>
  /\ ~rl_log[Len(rl_log)].ret
  /\ Cardinality(DOMAIN buckets) >= 2

\* C7: a client with no request inside the window is evicted by the sweep
\* that runs every cleanup_interval_seconds, so no key outlives its newest
\* timestamp by more than window_size_seconds + cleanup_interval_seconds.
C7_IdleClientsEvicted ==
  \A c \in DOMAIN buckets :
    \E i \in 1..Len(buckets[c]) :
      now - buckets[c][i] <= window_size_seconds + cleanup_interval_seconds

\* C16: no client's stored sequence is ever longer than requests_per_window.
C16_LengthWithinQuota ==
  \A c \in DOMAIN buckets : Len(buckets[c]) <= requests_per_window

\* C16 witness: with a quota of at least 2, a client's sequence is full and
\* its last call was denied.
C16_Witness ==
  /\ requests_per_window >= 2
  /\ rl_log # <<>>
  /\ ~rl_log[Len(rl_log)].ret
  /\ Len(buckets[rl_log[Len(rl_log)].client]) = requests_per_window

\* The allowed calls of client c made at a time in [from, from + window).
AllowedIn(c, from) ==
  {i \in 1..Len(rl_log) :
     /\ rl_log[i].client = c
     /\ rl_log[i].ret
     /\ from <= rl_log[i].at
     /\ rl_log[i].at < from + window_size_seconds}

\* C17: for every client and every interval of window_size_seconds seconds,
\* closed at its start and open at its end, at most requests_per_window of
\* the client's calls inside the interval were allowed.
C17_SlidingWindowBound ==
  \A c \in Clients :
    \A from \in (StartTime - window_size_seconds)..MaxTime :
      Cardinality(AllowedIn(c, from)) <= requests_per_window

\* C17 witness: a window of at least 2 seconds that starts after the first
\* second and holds a full quota of one client's allowed calls made at two
\* different times, while another client was allowed a call in it too.
C17_Witness ==
  \E c, d \in Clients :
    \E from \in (StartTime + 1)..MaxTime :
      /\ c # d
      /\ window_size_seconds >= 2
      /\ Cardinality(AllowedIn(c, from)) = requests_per_window
      /\ \E i, j \in AllowedIn(c, from) : rl_log[i].at # rl_log[j].at
      /\ AllowedIn(d, from) # {}

\* --------------------------------------------------- LoadBalancer: claims
\* The instances that are healthy now.
HealthySet == {i \in Positions : instances[i].is_healthy}

\* C8: round-robin over a healthy set of K instances that does not change,
\* called from several threads: every K calls served one after another
\* returned each of the K healthy instances exactly once, and the counter
\* has counted every served call (no ticket was given twice, no increment
\* was lost).
C8_RoundRobinFair ==
  LET K == Cardinality(HealthySet)
  IN /\ \A i \in 1..(Len(lb_log) - K + 1) :
          {lb_log[j].instance : j \in i..(i + K - 1)} = HealthySet
     /\ current_index = Len(lb_log)

\* C8 witness: at least two healthy instances, more than K calls served,
\* and calls of two different threads among them.
C8_Witness ==
  /\ Cardinality(HealthySet) >= 2
  /\ Len(lb_log) > Cardinality(HealthySet)
  /\ \E i, j \in 1..Len(lb_log) : lb_log[i].thread # lb_log[j].thread

\* C9: whatever the strategy, a finished select_instance returned None
\* exactly when no instance was healthy when the call read the flags, and
\* otherwise an instance that was healthy then; so with every instance
\* unhealthy the call is rejected, and with a single healthy instance that
\* instance is returned.
C9_HealthyOrNone ==
  \A t \in Threads :
    lb_pc[t] = "done"
      => /\ lb_ret[t] = <<>> <=> lb_seen[t] = {}
         /\ lb_ret[t] # <<>> => lb_ret[t][1] \in lb_seen[t]
         /\ \A i \in Positions : lb_seen[t] = {i} => lb_ret[t] = <<i>>

\* C9 witness: a call made while only the last instance of the list was
\* healthy returned it.
C9_Witness ==
  \E t \in Threads :
    /\ lb_pc[t] = "done"
    /\ lb_seen[t] = {NumInstances}
    /\ lb_ret[t] = <<NumInstances>>

\* C10: a finished weighted select_instance returned an instance of
\* positive weight when some healthy instance had one, whatever the draw and
\* the order of the list, and the first healthy instance when every healthy
\* weight was 0.
C10_ZeroWeightNeverPicked ==
  \A t \in Threads :
    (strategy = "weighted" /\ lb_pc[t] = "done" /\ lb_ret[t] # <<>>)
      => IF \E i \in lb_seen[t] : instances[i].weight > 0
           THEN instances[lb_ret[t][1]].weight > 0
           ELSE \A i \in lb_seen[t] : lb_ret[t][1] <= i

\* ------------------------------------------------- GatewayMetrics: claims
\* C11: after any record_request calls the stored latency list holds at most
\* the capacity, and is exactly the latest min(n, capacity) of the n latencies
\* recorded, in their order; between calls the total counts every call made.
C11_LatestWindowKept ==
  LET n == Len(gm_recorded)
      k == IF n < latency_cap THEN n ELSE latency_cap
  IN /\ Len(requests_latency_ms) <= latency_cap
     /\ requests_latency_ms = SubSeq(gm_recorded, n - k + 1, n)
     /\ gm_lock = 0 => (requests_total = n /\ gm_done = n)

\* C11 witness: more calls than a capacity of at least 2, and the entries
\* kept are not the first ones recorded.
C11_Witness ==
  /\ latency_cap >= 2
  /\ gm_lock = 0
  /\ requests_total > latency_cap
  /\ Len(requests_latency_ms) = latency_cap
  /\ requests_latency_ms # SubSeq(gm_recorded, 1, latency_cap)

\* v stands at 0-based index k of seq sorted ascending: it occurs in seq, at
\* most k entries are below it and more than k are not above it.
AtSortedIndex(seq, k, v) ==
  /\ \E i \in 1..Len(seq) : seq[i] = v
  /\ Cardinality({i \in 1..Len(seq) : seq[i] < v}) <= k
  /\ Cardinality({i \in 1..Len(seq) : seq[i] <= v}) > k

\* C12: a snapshot over n >= 1 latencies reports as p95 and p99 the entries
\* at 0-based indices floor(n * 0.95) and floor(n * 0.99) of the ascending
\* sort, both indices below n; over no latencies it reports 0 for the average
\* and both percentiles; over the latencies 1..100 in any order it reports
\* the average 50.5, p95 = 96 and p99 = 100.
C12_Percentiles ==
  gm_snap # None =>
    LET st == gm_snap[1].stats
        lat == gm_snap[1].seen
        n == Len(lat)
        i95 == (n * 95) \div 100
        i99 == (n * 99) \div 100
    IN /\ n = 0 => /\ st.avg_latency_ms[1] = 0
                   /\ st.p95_latency_ms = 0
                   /\ st.p99_latency_ms = 0
       /\ n >= 1 => /\ i95 < n
                    /\ i99 < n
                    /\ AtSortedIndex(lat, i95, st.p95_latency_ms)
                    /\ AtSortedIndex(lat, i99, st.p99_latency_ms)
       /\ (n = 100 /\ {lat[i] : i \in 1..n} = 1..100)
            => /\ 2 * st.avg_latency_ms[1] = 101 * st.avg_latency_ms[2]
               /\ st.p95_latency_ms = 96
               /\ st.p99_latency_ms = 100

\* C12 witness: a snapshot over the latencies 100, 99, ..., 1.
C12_Witness ==
  /\ gm_snap # None
  /\ gm_snap[1].seen = [i \in 1..100 |-> 101 - i]
  /\ gm_snap[1].stats.p95_latency_ms = 96

\* C18: every snapshot has requests_total = requests_success +
\* requests_failed, and its requests_total is the number of record_request
\* calls that had returned when it was taken.
C18_SnapshotConsistent ==
  gm_snap # None =>
    LET st == gm_snap[1].stats
    IN /\ st.requests_total = st.requests_success + st.requests_failed
       /\ st.requests_total = gm_snap[1].done

\* C18 witness: a snapshot taken while another thread was inside
\* record_request, after calls of both outcomes had returned.
C18_Witness ==
  /\ gm_snap # None
  /\ gm_snap[1].inside # {}
  /\ gm_snap[1].stats.requests_success >= 1
  /\ gm_snap[1].stats.requests_failed >= 1

\* ---------------------------------------------- APIGatewayManager: claims
\* What C13 asks of one step: when it is an add_route for a key the route
\* map already holds, the number of routes is unchanged, the map holds the
\* RouteConfig passed, the key's RateLimiter is the one it was, history
\* included, and every LoadBalancer is the one it was, counter included.
C13_StepOK ==
  (/\ mg_last' # mg_last
   /\ mg_last'.op = "add_route"
   /\ route_key(mg_last'.route[1]) \in DOMAIN routes)
    => LET route == mg_last'.route[1]
           key == route_key(route)
       IN /\ Cardinality(DOMAIN routes') = Cardinality(DOMAIN routes)
          /\ routes'[key] = route
          /\ rate_limiters'[key] = rate_limiters[key]
          /\ \A svc \in DOMAIN load_balancers :
               load_balancers'[svc] = load_balancers[svc]

\* C13: a second add_route with the same method and path leaves the number
\* of routes unchanged, stores the later RouteConfig, and keeps the existing
\* RateLimiter and LoadBalancer objects with their history and counter.
C13_AddRouteTwice == [][C13_StepOK]_vars

\* C13 witness: the last call was an add_route that replaced a different
\* RouteConfig under its key, the key's limiter holds a client's history and
\* the balancer of the route's service has served a request.
C13_Witness ==
  /\ mg_last.op = "add_route"
  /\ mg_last.prev # None
  /\ mg_last.prev[1] # mg_last.route[1]
  /\ LET route == mg_last.route[1]
         rl == rate_limiters[route_key(route)]
     IN /\ routes[route_key(route)] = route
        /\ \E c \in DOMAIN rl.buckets : rl.buckets[c] # <<>>
        /\ load_balancers[route.backend_service].current_index > 0

\* C19: for every route key, the quota and window of the key's RateLimiter
\* are the rate_limit_requests and rate_limit_window_seconds of the
\* RouteConfig the route map holds for the key.
C19_LimiterMatchesRoute ==
  \A key \in DOMAIN routes :
    /\ key \in DOMAIN rate_limiters
    /\ rate_limiters[key].requests_per_window
         = routes[key].rate_limit_requests
    /\ rate_limiters[key].window_size_seconds
         = routes[key].rate_limit_window_seconds

\* C14: the status health_check leaves is the one the fraction of healthy
\* instances among all registered instances gives: healthy above 3/4,
\* degraded above 1/2, unhealthy otherwise, healthy without services; and
\* health_check changes no is_healthy flag.
C14_StatusFromHealthyFraction ==
  mg_last.op = "health_check" =>
    LET all == Cardinality(AllInstances(services))
        healthy == Cardinality(HealthyInstances(services))
    IN /\ services = mg_last.prev[1]
       /\ status = IF DOMAIN services = {} THEN "healthy"
                   ELSE IF 4 * healthy > 3 * all THEN "healthy"
                   ELSE IF 2 * healthy > all THEN "degraded"
                   ELSE "unhealthy"

====
